---- MODULE Spec2Model ----
(***************************************************************************)
(* Decoricks Finance Tracker: the ledger store (utils/storage.ts), the     *)
(* handlers of App.tsx that mutate and persist the ledger, the import      *)
(* handler of ExportImport.tsx, the usage tracker and the notification    *)
(* log.                                                                    *)
(***************************************************************************)
EXTENDS Integers, Sequences, FiniteSets, TLC

\* ------------------------------------------------------------------ bounds
MaxId == 2          \* transaction ids are 1..MaxId
MaxAmount == 2      \* transaction amounts are 1..MaxAmount
MaxActivity == 2    \* tracked activities (add/edit/delete/export/import) per run
MaxCategories == 3  \* handleAddCategory stops at this many categories
MaxFaults == 1      \* storage faults per run
MaxNotificationId == 52  \* notifications added to a log since it was empty
MaxRead == 1        \* read entries in the notification log

\* ------------------------------------------------------------ JS values
\* A property of a parsed object: undefined (key missing), null (or another
\* falsy value), a truthy value that is not an array, or an array.
MISSING == [t |-> "missing"]
NULLV == [t |-> "null"]
SCALAR == [t |-> "scalar"]
Arr(s) == [t |-> "array", v |-> s]

\* Array.isArray(f)
IsArray(f) == f.t = "array"

\* JS truthiness of a property value: arrays (even empty) and SCALAR are truthy
Truthy(f) == f.t \in {"scalar", "array"}

\* f || d
OrElse(f, d) == IF Truthy(f) THEN f ELSE d

\* A JS value at the top of a document: null, a non-object such as 5, or an
\* object with the two ledger properties and the set of its other keys.
NullDoc == [d |-> "null"]
ScalarDoc == [d |-> "scalar"]
Obj(tx, cats, extra) ==
  [d |-> "object", transactions |-> tx, categories |-> cats, extra |-> extra]

\* v === null, where a property access throws a TypeError
IsNull(v) == v.d = "null"

\* v.transactions / v.categories: undefined on a non-object
\* (the caller checks for null first, where the access throws)
GetTransactions(v) == IF v.d = "object" THEN v.transactions ELSE MISSING
GetCategories(v) == IF v.d = "object" THEN v.categories ELSE MISSING

\* --------------------------------------------------- storage item contents
\* What getItem returns: null, the empty string, a text JSON.parse rejects,
\* or a JSON text (kept with the document it denotes).
ABSENT == [kind |-> "absent"]
EMPTYSTR == [kind |-> "empty"]
GARBAGE == [kind |-> "garbage"]

\* JSON.stringify(v)
JSONstringify(v) == [kind |-> "json", doc |-> v]

\* !!stored for a string-or-null
NonEmpty(text) == text.kind \in {"garbage", "json"}

\* JSON.parse(text) throws a SyntaxError
ParseThrows(text) == text.kind # "json"

\* JSON.parse(text), where it does not throw
JSONparse(text) == text.doc

DEFAULT_CATEGORIES ==
  << [name |-> "Sales", type |-> "income"], [name |-> "Rent", type |-> "expense"] >>

\* ------------------------------------------------------------- loadData
\* Completion records of a block: it returned a value, threw, or ran off its end.
Return(v) == [c |-> "return", v |-> v]
Throw == [c |-> "throw"]
Normal == [c |-> "normal"]

\* Reshape with the stored categories forgotten
ReshapeDefaultCategories(d) ==
  Obj(OrElse(GetTransactions(d), Arr(<<>>)), Arr(DEFAULT_CATEGORIES), {})

\* { transactions: d.transactions || [], categories: d.categories || DEFAULT_CATEGORIES }
\* (throws when d is null)
Reshape(d) ==
  Obj(OrElse(GetTransactions(d), Arr(<<>>)),
      OrElse(GetCategories(d), Arr(DEFAULT_CATEGORIES)), {})

\* StoredAfterBackup with the backup branch left out
StoredAfterBackupSkipped(primary, backup) == Return(primary)

\* storage.ts 12-21: the value of `stored` after the backup branch, or Throw
StoredAfterBackup(primary, backup) ==
  IF NonEmpty(primary) THEN Return(primary)
  ELSE IF ~NonEmpty(backup) THEN Return(primary)
  ELSE IF ParseThrows(backup) THEN Throw
  ELSE IF IsNull(JSONparse(backup)) THEN Throw
  ELSE Return(JSONstringify(Reshape(JSONparse(backup))))

\* LoadTry with a primary item that does not parse taken as no data at all
LoadTryNoRecovery(primary, backup, session) ==
  LET s1 == StoredAfterBackup(primary, backup) IN
  IF s1.c = "throw" THEN Throw
  ELSE LET stored == IF NonEmpty(s1.v) THEN s1.v ELSE session IN
       IF ~NonEmpty(stored) THEN Normal
       ELSE IF ParseThrows(stored) THEN Normal
       ELSE IF IsNull(JSONparse(stored)) THEN Throw
       ELSE Return(Reshape(JSONparse(stored)))

\* storage.ts 7-34: the try block
LoadTry(primary, backup, session) ==
  LET s1 == StoredAfterBackup(primary, backup) IN
  IF s1.c = "throw" THEN Throw
  ELSE LET stored == IF NonEmpty(s1.v) THEN s1.v ELSE session IN
       IF ~NonEmpty(stored) THEN Normal
       ELSE IF ParseThrows(stored) THEN Throw
       ELSE IF IsNull(JSONparse(stored)) THEN Throw
       ELSE Return(Reshape(JSONparse(stored)))

\* LoadCatch without its own try/catch
LoadCatchUnguarded(backup) ==
  IF ~NonEmpty(backup) THEN Normal
  ELSE IF ParseThrows(backup) THEN Throw
  ELSE IF IsNull(JSONparse(backup)) THEN Throw
  ELSE Return(Reshape(JSONparse(backup)))

\* storage.ts 39-50: the recovery inside the catch block, with its own try/catch
LoadCatch(backup) ==
  IF ~NonEmpty(backup) THEN Normal
  ELSE IF ParseThrows(backup) THEN Normal
  ELSE IF IsNull(JSONparse(backup)) THEN Normal
  ELSE Return(Reshape(JSONparse(backup)))

\* EmptyLedger with no categories
EmptyLedgerNoCategories == Obj(Arr(<<>>), Arr(<<>>), {})

\* storage.ts 53-56
EmptyLedger == Obj(Arr(<<>>), Arr(DEFAULT_CATEGORIES), {})

\* storage.ts 6-57: the completion of loadData()
loadData(primary, backup, session) ==
  LET t == LoadTry(primary, backup, session) IN
  IF t.c = "return" THEN t
  ELSE IF t.c = "normal" THEN Return(EmptyLedger)
  ELSE LET k == LoadCatch(backup) IN
       IF k.c = "return" THEN k
       ELSE IF k.c = "throw" THEN Throw
       ELSE Return(EmptyLedger)

\* ------------------------------------------------------------- saveData
Locations == {"primary", "backup", "session", "meta"}

\* { ...data, k1: ..., k2: ... }
Annotate(data, keys) ==
  Obj(data.transactions, data.categories, data.extra \cup keys)

\* JSON.stringify(data).length, measured in serialized array elements
Checksum(data) ==
  (IF IsArray(data.transactions) THEN Len(data.transactions.v) ELSE 0)
  + (IF IsArray(data.categories) THEN Len(data.categories.v) ELSE 0)

\* criticalData with the transactions counted as categories too
criticalDataMiscounted(data) ==
  [d |-> "meta",
   transactionCount |-> Len(data.transactions.v),
   categoryCount |-> Len(data.transactions.v),
   checksum |-> Checksum(data)]

\* storage.ts 84-89
criticalData(data) ==
  [d |-> "meta",
   transactionCount |-> Len(data.transactions.v),
   categoryCount |-> Len(data.categories.v),
   checksum |-> Checksum(data)]

\* One setItem call: who made it, the location, and whether it was stored
Call(by, loc, ok) == [by |-> by, loc |-> loc, ok |-> ok]

\* A run of setItem calls inside one try block: the calls stop at the first
\* one that throws. writes is a sequence of <<location, text>>; rejecting is
\* the set of locations whose setItem throws (quota exceeded).
FirstFail(writes, rejecting) ==
  IF \E i \in 1..Len(writes) : writes[i][1] \in rejecting
  THEN CHOOSE i \in 1..Len(writes) :
         /\ writes[i][1] \in rejecting
         /\ \A j \in 1..(i - 1) : writes[j][1] \notin rejecting
  ELSE 0

RunWrites(st, writes, rejecting, by) ==
  LET ff == FirstFail(writes, rejecting)
      done == IF ff = 0 THEN Len(writes) ELSE ff - 1
      last(l) == CHOOSE i \in 1..done :
                   /\ writes[i][1] = l
                   /\ \A j \in (i + 1)..done : writes[j][1] # l
  IN [st |-> [l \in Locations |->
                IF \E i \in 1..done : writes[i][1] = l
                THEN writes[last(l)][2] ELSE st[l]],
      calls |-> [i \in 1..(IF ff = 0 THEN done ELSE ff) |->
                   Call(by, writes[i][1], i # ff)],
      threw |-> ff # 0]

\* storage.ts 62: the validation of saveData
ValidForSave(data) == IsArray(data.transactions) /\ IsArray(data.categories)

\* storage.ts 67-80: the three writes of the try block
SaveMainWrites(data) ==
  << <<"primary", JSONstringify(data)>>,
     <<"backup", JSONstringify(Annotate(data, {"lastBackup", "version", "dataIntegrity"}))>>,
     <<"session", JSONstringify(data)>> >>

\* storage.ts 83-93: the metadata write in its own try/catch
SaveMetaWrites(data) == << <<"meta", JSONstringify(criticalData(data))>> >>

\* SaveFallbackWrites retrying the backup as well
SaveFallbackWritesAll(data) ==
  << <<"backup", JSONstringify(Annotate(data, {"lastBackup", "version", "dataIntegrity"}))>>,
     <<"session", JSONstringify(data)>> >>

\* storage.ts 99-105: the session write of the catch block
SaveFallbackWrites(data) == << <<"session", JSONstringify(data)>> >>

ALERT_NONE == "none"
ALERT_SESSION == "Data saved to session storage as backup. Please export your data for safety."
ALERT_UNABLE == "Warning: Unable to save data. Please export your data as backup."
ALERT_INVALID_FILE == "Invalid file format. Please select a valid backup file."
ALERT_IMPORT_ERROR == "Error importing data. Please check the file format."

\* storage.ts 59-107: saveData(data) on storage st; the result is the storage
\* after it, the setItem calls it made, the alert it raised and whether it threw
saveData(st, data, rejecting) ==
  IF ~ValidForSave(data)
  THEN [st |-> st, calls |-> <<>>, alert |-> ALERT_NONE, threw |-> FALSE]
  ELSE LET main == RunWrites(st, SaveMainWrites(data), rejecting, "saveData") IN
       IF ~main.threw
       THEN LET m == RunWrites(main.st, SaveMetaWrites(data), rejecting, "saveData") IN
            [st |-> m.st, calls |-> main.calls \o m.calls,
             alert |-> ALERT_NONE, threw |-> FALSE]
       ELSE LET f == RunWrites(main.st, SaveFallbackWrites(data), rejecting, "saveData") IN
            [st |-> f.st, calls |-> main.calls \o f.calls,
             alert |-> IF f.threw THEN ALERT_UNABLE ELSE ALERT_SESSION,
             threw |-> FALSE]

\* App.tsx 106-118: the writes handleSaveData makes itself, in one try block
ForceWrites(newData) ==
  << <<"primary", JSONstringify(newData)>>,
     <<"backup", JSONstringify(Annotate(newData, {"lastBackup"}))>>,
     <<"session", JSONstringify(newData)>> >>

\* App.tsx 101-119: handleSaveData(newData), as saveData above
handleSaveData(st, newData, rejecting) ==
  LET s == saveData(st, newData, rejecting)
      h == RunWrites(s.st, ForceWrites(newData), rejecting, "handleSaveData")
  IN [st |-> h.st, calls |-> s.calls \o h.calls, alert |-> s.alert,
      threw |-> s.threw]

\* ------------------------------------------------------------ the state
VARIABLES
  data,                  \* App: the in-memory ledger (useState data)
  storage,               \* the four ledger items of localStorage / sessionStorage
  activeTab,             \* App: the tab shown
  editingTransaction,    \* App: the transaction under edit, or NoTransaction
  notificationSettings,  \* App: the settings in use
  settingsItem,          \* localStorage: the persisted notification settings
  notifications,         \* localStorage: the persisted notification log
  tracking,              \* localStorage: the usage record
  calls,                 \* the setItem calls of the most recent handler
  alert,                 \* the window.alert of the most recent handler
  faults,                \* storage faults so far: saves that met a rejected
                         \* write, and items damaged from outside
  now,                   \* the clock: the instant Date gives
  autoDownload,          \* localStorage: the persisted auto-download settings
  lastExport,            \* the most recent triggerAutoDownload: "none" before
                         \* any, "done" or "failed"
  startupTimer,          \* initializeAutoDownload: its five-second timer is pending
  exported,              \* the ledger the most recent download serialized
  reminderTimers,        \* window: the reminder timers that are live
  remindersItem,         \* localStorage: the persisted reminder timer ids
  nextTimerId            \* window: the id the next timer gets

vars == << data, storage, activeTab, editingTransaction, notificationSettings,
           settingsItem, notifications, tracking, calls, alert, faults,
           now, autoDownload, lastExport, startupTimer,
           exported, reminderTimers, remindersItem, nextTimerId >>

\* types.ts Transaction, reduced to the fields the handlers inspect
Transaction(i, a) == [id |-> i, amount |-> a]
Transactions == { Transaction(i, a) : i \in 1..MaxId, a \in 1..MaxAmount }
NoTransaction == [id |-> 0, amount |-> 0]

\* types.ts Category
Category(n) == [name |-> n, type |-> "expense"]

Tabs == {"dashboard", "add", "transactions", "settings"}

\* App.tsx 32-36 and notifications.ts 29-33: the default settings
DefaultSettings ==
  [weeklyReminders |-> TRUE, monthlyReminders |-> TRUE, transactionNotifications |-> TRUE]

\* notifications.ts 19-34
getNotificationSettings(item) ==
  IF NonEmpty(item) /\ ~ParseThrows(item) THEN JSONparse(item) ELSE DefaultSettings

\* ------------------------------------------------------------------ time
\* Instants are milliseconds since the epoch, as Date.getTime() gives them
DAY_IN_MS == 24 * 60 * 60 * 1000
WEEK_IN_MS == 7 * 24 * 60 * 60 * 1000
thirtyMinutes == 30 * 60 * 1000

\* new Date(t).toISOString(): a text that denotes the instant to the millisecond
toISOString(t) == [iso |-> t]

\* new Date(text).getTime()
getTime(text) == text.iso

\* The empty string, where a timestamp is expected
NoTimestamp == [empty |-> TRUE]

\* !!text for a timestamp text
IsSet(text) == "iso" \in DOMAIN text

\* new Date(t).toISOString().split('T')[0]: the calendar day (UTC) of t
Today(t) == t \div DAY_IN_MS

\* ------------------------------------------------------- the usage tracker
\* part_001 25-35: the record getLiveTrackingData makes up when none is stored
FreshUsage(t) ==
  [sessionStart |-> toISOString(t), totalSessions |-> 1,
   transactionsAdded |-> 0, transactionsEdited |-> 0, transactionsDeleted |-> 0,
   exportsPerformed |-> 0, importsPerformed |-> 0,
   lastActivity |-> toISOString(t), dailyUsage |-> [d \in {} |-> 0]]

\* part_001 15-36: getLiveTrackingData() at instant t
getLiveTrackingData(item, t) ==
  IF NonEmpty(item) /\ ~ParseThrows(item) THEN JSONparse(item) ELSE FreshUsage(t)

\* CountActivity counting every activity as an addition
CountActivityAsAdd(d, activity) == [d EXCEPT !.transactionsAdded = @ + 1]

\* part_001 51-67: the switch on the activity
CountActivity(d, activity) ==
  CASE activity = "add" -> [d EXCEPT !.transactionsAdded = @ + 1]
    [] activity = "edit" -> [d EXCEPT !.transactionsEdited = @ + 1]
    [] activity = "delete" -> [d EXCEPT !.transactionsDeleted = @ + 1]
    [] activity = "export" -> [d EXCEPT !.exportsPerformed = @ + 1]
    [] activity = "import" -> [d EXCEPT !.importsPerformed = @ + 1]
    [] OTHER -> d

\* part_001 70: data.dailyUsage[today] = (data.dailyUsage[today] || 0) + 1
CountDay(usage, today) ==
  [d \in DOMAIN usage \cup {today} |->
     (IF d \in DOMAIN usage THEN usage[d] ELSE 0) + (IF d = today THEN 1 ELSE 0)]

\* part_001 46-74: trackActivity(activity) at instant t; the item it stores
trackActivity(item, activity, t) ==
  LET d == CountActivity(getLiveTrackingData(item, t), activity) IN
  JSONstringify([d EXCEPT !.dailyUsage = CountDay(@, Today(t)),
                          !.lastActivity = toISOString(t)])

\* SessionExpired with thirty minutes themselves counted as expired
SessionExpiredAtThirty(d, t) ==
  IsSet(d.lastActivity) /\ t - getTime(d.lastActivity) >= thirtyMinutes

\* part_001 81-86: more than thirty minutes since the last activity
SessionExpired(d, t) ==
  IsSet(d.lastActivity) /\ t - getTime(d.lastActivity) > thirtyMinutes

\* part_001 76-94: initializeSession() at instant t; the item it stores
initializeSession(item, t) ==
  LET d == getLiveTrackingData(item, t)
      s == IF SessionExpired(d, t)
           THEN [d EXCEPT !.totalSessions = @ + 1, !.sessionStart = toISOString(t)]
           ELSE d
  IN JSONstringify([s EXCEPT !.lastActivity = toISOString(t)])

\* The five counters of a usage record, summed
TotalActivity(d) ==
  d.transactionsAdded + d.transactionsEdited + d.transactionsDeleted
  + d.exportsPerformed + d.importsPerformed

\* part_001 96-119: getUsageStats(), its two counts
getUsageStats(item, t) ==
  LET d == getLiveTrackingData(item, t) IN
  [totalTransactions |-> d.transactionsAdded + d.transactionsEdited + d.transactionsDeleted,
   totalSessions |-> d.totalSessions]

\* ---------------------------------------------------- the notification log
NOTIFICATION_CAP == 50

\* notifications.ts 71: an id no entry of the log has (Date.now() in base 36
\* followed by random digits; later ids are greater)
FreshId(log) ==
  IF log = <<>> THEN 1
  ELSE 1 + (CHOOSE m \in { log[i].id : i \in 1..Len(log) } :
              \A i \in 1..Len(log) : log[i].id <= m)

\* addNotification adding the entry at the end of the log
addNotificationAtEnd(log, title, type) ==
  LET n == log \o << [id |-> FreshId(log), title |-> title, type |-> type, read |-> FALSE] >> IN
  IF Len(n) > NOTIFICATION_CAP THEN SubSeq(n, 1, NOTIFICATION_CAP) ELSE n

\* addNotification without the cap
addNotificationUncapped(log, title, type) ==
  << [id |-> FreshId(log), title |-> title, type |-> type, read |-> FALSE] >> \o log

\* notifications.ts 64-95: addNotification(title, message, type) on the log
addNotification(log, title, type) ==
  LET n == << [id |-> FreshId(log), title |-> title, type |-> type, read |-> FALSE] >> \o log IN
  IF Len(n) > NOTIFICATION_CAP THEN SubSeq(n, 1, NOTIFICATION_CAP) ELSE n

\* markNotificationAsRead marking every entry
markNotificationAsReadAll(log, id) ==
  [i \in 1..Len(log) |-> [log[i] EXCEPT !.read = TRUE]]

\* notifications.ts 226-232: markNotificationAsRead(id) on the log
markNotificationAsRead(log, id) ==
  [i \in 1..Len(log) |-> IF log[i].id = id THEN [log[i] EXCEPT !.read = TRUE] ELSE log[i]]

\* notifications.ts 234-236: clearAllNotifications()
clearAllNotifications == <<>>

\* ------------------------------------------------------ the auto-download
\* notifications.ts 257-262: the settings when none are stored
DefaultAutoDownload ==
  [enabled |-> TRUE, lastDownload |-> NoTimestamp,
   downloadInterval |-> WEEK_IN_MS, format |-> "json"]

\* notifications.ts 247-263: getAutoDownloadSettings()
getAutoDownloadSettings(item) ==
  IF NonEmpty(item) /\ ~ParseThrows(item) THEN JSONparse(item) ELSE DefaultAutoDownload

\* shouldAutoDownload due only after the interval has been exceeded
shouldAutoDownloadStrict(item, t) ==
  LET settings == getAutoDownloadSettings(item) IN
  IF ~settings.enabled THEN FALSE
  ELSE IF ~IsSet(settings.lastDownload) THEN TRUE
  ELSE t - getTime(settings.lastDownload) > settings.downloadInterval

\* notifications.ts 273-284: shouldAutoDownload() at instant t
shouldAutoDownload(item, t) ==
  LET settings == getAutoDownloadSettings(item) IN
  IF ~settings.enabled THEN FALSE
  ELSE IF ~IsSet(settings.lastDownload) THEN TRUE
  ELSE t - getTime(settings.lastDownload) >= settings.downloadInterval

\* notifications.ts 296-328: producing the file and starting its download
\* throws: the CSV rows of a ledger whose transactions are not an array, or
\* the browser refusing the Blob, the object URL or the click
DownloadThrows(settings, ledger, browserThrows) ==
  \/ settings.format = "csv" /\ ~IsArray(GetTransactions(ledger))
  \/ browserThrows

\* triggerAutoDownload leaving the last download as it was
triggerAutoDownloadUnrecorded(item, ledger, browserThrows, t) ==
  LET settings == getAutoDownloadSettings(item) IN
  [item |-> item,
   outcome |-> IF DownloadThrows(settings, ledger, browserThrows) THEN "failed" ELSE "done"]

\* triggerAutoDownload recording the download before it is made
triggerAutoDownloadEager(item, ledger, browserThrows, t) ==
  LET settings == getAutoDownloadSettings(item) IN
  [item |-> JSONstringify([settings EXCEPT !.lastDownload = toISOString(t)]),
   outcome |-> IF DownloadThrows(settings, ledger, browserThrows) THEN "failed" ELSE "done"]

\* notifications.ts 286-342: triggerAutoDownload(data) at instant t: the
\* settings item after it, and whether the file was downloaded
triggerAutoDownload(item, ledger, browserThrows, t) ==
  LET settings == getAutoDownloadSettings(item) IN
  IF DownloadThrows(settings, ledger, browserThrows)
  THEN [item |-> item, outcome |-> "failed"]
  ELSE [item |-> JSONstringify([settings EXCEPT !.lastDownload = toISOString(t)]),
        outcome |-> "done"]

\* ------------------------------------------------------- the reminders
\* A timer of the window: a timeout (not recurring) or an interval
Timer(i, k, r) == [id |-> i, kind |-> k, recurring |-> r]

FirstTimerId == 1

\* notifications.ts 120: JSON.parse(localStorage.getItem('decoricks-reminders') || '[]')
StoredReminders(item) == IF NonEmpty(item) THEN JSONparse(item) ELSE <<>>

\* ClearReminders forgetting the stored ids without clearing their timers
ClearRemindersForgetting(item, live) ==
  [live |-> live, item |-> ABSENT]

\* notifications.ts 118-128: the stored ids are cleared and the item removed;
\* when the item does not parse nothing is cleared and the item stays
ClearReminders(item, live) ==
  IF NonEmpty(item) /\ ParseThrows(item)
  THEN [live |-> live, item |-> item]
  ELSE LET ids == { StoredReminders(item)[i] : i \in 1..Len(StoredReminders(item)) } IN
       [live |-> { tm \in live : tm.id \notin ids }, item |-> ABSENT]

\* notifications.ts 114-224: scheduleReminders() under the settings read,
\* with the window's live reminder timers and next timer id
scheduleReminders(settings, item, live, nextId) ==
  LET c == ClearReminders(item, live)
      weekly == IF settings.weeklyReminders
                THEN << Timer(nextId, "weekly", FALSE) >> ELSE <<>>
      monthly == IF settings.monthlyReminders
                 THEN << Timer(nextId + Len(weekly), "monthly", FALSE) >> ELSE <<>>
      created == weekly \o monthly
  IN [live |-> c.live \cup { created[i] : i \in 1..Len(created) },
      item |-> JSONstringify([i \in 1..Len(created) |-> created[i].id]),
      nextId |-> nextId + Len(created)]

\* App.tsx 56-58: the reminders the mount effect schedules on a new page
MountReminders(settings, item) == scheduleReminders(settings, item, {}, FirstTimerId)

\* App.tsx 27-30: the ledger the component is constructed with
InitialData == Obj(Arr(<<>>), Arr(<<>>), {})

\* No download was made
NoExport == [exported |-> "none"]

\* The clock, the auto-download and the reminders, which the ledger handlers
\* leave alone
timers == << now, autoDownload, lastExport, startupTimer,
             exported, reminderTimers, remindersItem, nextTimerId >>

\* The usage record as the tracker reads it now
Usage == getLiveTrackingData(tracking, now)

\* App.tsx 134, 174, 191, 214: the notification of a ledger handler
Notify(log, settings, title, type) ==
  IF settings.transactionNotifications THEN addNotification(log, title, type) ELSE log

\* The components render data.transactions and data.categories with filter
\* and map; with a non-array there the render throws and nothing is shown.
Rendered == IsArray(data.transactions) /\ IsArray(data.categories)

Ids(txs) == { txs[i].id : i \in 1..Len(txs) }

\* The storage faults a handler may meet: none, or one more within the bound
MayReject(rejecting) == rejecting = {} \/ faults < MaxFaults
Faulted(rejecting) == IF rejecting = {} THEN faults ELSE faults + 1

\* ----------------------------------------------------------------- Init
SavedSettings ==
  { JSONstringify([DefaultSettings EXCEPT !.transactionNotifications = FALSE]) }

\* App.tsx 27-53: the component after its mount effect, on a browser profile
\* whose ledger items are absent and whose settings may have been saved before
Init ==
  /\ storage = [l \in Locations |-> ABSENT]
  /\ data = loadData(storage["primary"], storage["backup"], storage["session"]).v
  /\ activeTab = "dashboard"
  /\ editingTransaction = NoTransaction
  /\ settingsItem \in {ABSENT} \cup SavedSettings
  /\ notificationSettings = getNotificationSettings(settingsItem)
  /\ notifications = <<>>
  /\ now = 0
  /\ tracking = initializeSession(ABSENT, now)
  /\ calls = <<>>
  /\ alert = ALERT_NONE
  /\ faults = 0
  /\ autoDownload = ABSENT
  /\ lastExport = "none"
  /\ startupTimer = shouldAutoDownload(autoDownload, now)
  /\ exported = NoExport
  /\ reminderTimers = MountReminders(notificationSettings, ABSENT).live
  /\ remindersItem = MountReminders(notificationSettings, ABSENT).item
  /\ nextTimerId = MountReminders(notificationSettings, ABSENT).nextId

\* -------------------------------------------------------------- actions
\* The page is reloaded: the component is constructed again and its mount
\* effect reads the ledger and the settings (App.tsx 27-53)
Reload ==
  /\ LET r == loadData(storage["primary"], storage["backup"], storage["session"]) IN
       /\ r.c = "return"
       /\ data' = r.v
  /\ activeTab' = "dashboard"
  /\ editingTransaction' = NoTransaction
  /\ notificationSettings' = getNotificationSettings(settingsItem)
  /\ calls' = <<>>
  /\ alert' = ALERT_NONE
  /\ tracking' = initializeSession(tracking, now)
  /\ startupTimer' = shouldAutoDownload(autoDownload, now)
  /\ LET m == MountReminders(getNotificationSettings(settingsItem), remindersItem) IN
       /\ reminderTimers' = m.live
       /\ remindersItem' = m.item
       /\ nextTimerId' = m.nextId
  /\ UNCHANGED << storage, settingsItem, notifications, faults,
                  now, autoDownload, lastExport, exported >>

\* App.tsx 320: a tab button
SetActiveTab(tab) ==
  /\ Rendered
  /\ tab # activeTab
  /\ activeTab' = tab
  /\ calls' = <<>>
  /\ alert' = ALERT_NONE
  /\ UNCHANGED << data, storage, editingTransaction, notificationSettings,
                  settingsItem, notifications, tracking, faults >>
  /\ UNCHANGED timers

\* The common part of the handlers that end in handleSaveData(newData)
Persist(newData, rejecting) ==
  LET h == handleSaveData(storage, newData, rejecting) IN
    /\ MayReject(rejecting)
    /\ data' = newData
    /\ storage' = h.st
    /\ calls' = h.calls
    /\ alert' = h.alert
    /\ faults' = Faulted(rejecting)
    /\ UNCHANGED timers

\* EditedTransactions with the edited transaction moved to the end
EditedTransactionsAtEnd(txs, transaction) ==
  SelectSeq(txs, LAMBDA t : t.id # transaction.id) \o << transaction >>

\* App.tsx 124: data.transactions.map(t => t.id === transaction.id ? transaction : t)
EditedTransactions(txs, transaction) ==
  [i \in 1..Len(txs) |-> IF txs[i].id = transaction.id THEN transaction ELSE txs[i]]

\* App.tsx 121-158: handleSaveTransaction(transaction), the form not editing
AddTransaction(transaction, rejecting) ==
  /\ Rendered /\ activeTab = "add"
  /\ editingTransaction = NoTransaction
  /\ TotalActivity(Usage) < MaxActivity
  /\ transaction.id \notin Ids(data.transactions.v)
  /\ Persist([data EXCEPT !.transactions = Arr(data.transactions.v \o << transaction >>)],
             rejecting)
  /\ tracking' = trackActivity(tracking, "add", now)
  /\ notifications' = Notify(notifications, notificationSettings, "Transaction Added", "success")
  /\ UNCHANGED << activeTab, editingTransaction, notificationSettings, settingsItem >>

\* App.tsx 121-158: handleSaveTransaction(transaction), the form editing
SaveEdit(transaction, rejecting) ==
  /\ Rendered /\ activeTab = "add"
  /\ editingTransaction # NoTransaction
  /\ TotalActivity(Usage) < MaxActivity
  /\ transaction.id = editingTransaction.id
  /\ Persist([data EXCEPT !.transactions =
                Arr(EditedTransactions(data.transactions.v, transaction))],
             rejecting)
  /\ tracking' = trackActivity(tracking, "edit", now)
  /\ notifications' = Notify(notifications, notificationSettings, "Transaction Updated", "success")
  /\ editingTransaction' = NoTransaction
  /\ activeTab' = "transactions"
  /\ UNCHANGED << notificationSettings, settingsItem >>

\* App.tsx 160-163: handleEditTransaction(transaction), from the list
handleEditTransaction(transaction) ==
  /\ Rendered /\ activeTab = "transactions"
  /\ \E i \in 1..Len(data.transactions.v) : data.transactions.v[i] = transaction
  /\ editingTransaction' = transaction
  /\ activeTab' = "add"
  /\ calls' = <<>>
  /\ alert' = ALERT_NONE
  /\ UNCHANGED << data, storage, notificationSettings, settingsItem,
                  notifications, tracking, faults >>
  /\ UNCHANGED timers

\* App.tsx 203-206: handleCancelEdit()
handleCancelEdit ==
  /\ Rendered /\ activeTab = "add"
  /\ editingTransaction # NoTransaction
  /\ editingTransaction' = NoTransaction
  /\ activeTab' = "transactions"
  /\ calls' = <<>>
  /\ alert' = ALERT_NONE
  /\ UNCHANGED << data, storage, notificationSettings, settingsItem,
                  notifications, tracking, faults >>
  /\ UNCHANGED timers

\* App.tsx 165-185: handleDeleteTransaction(id), the confirm accepted
handleDeleteTransaction(id, rejecting) ==
  /\ Rendered /\ activeTab = "transactions"
  /\ id \in Ids(data.transactions.v)
  /\ TotalActivity(Usage) < MaxActivity
  /\ Persist([data EXCEPT !.transactions =
                Arr(SelectSeq(data.transactions.v, LAMBDA t : t.id # id))],
             rejecting)
  /\ tracking' = trackActivity(tracking, "delete", now)
  /\ notifications' = Notify(notifications, notificationSettings, "Transaction Deleted", "warning")
  /\ UNCHANGED << activeTab, editingTransaction, notificationSettings, settingsItem >>

\* App.tsx 187-201: handleAddCategory(category), from the form
handleAddCategory(category, rejecting) ==
  /\ Rendered /\ activeTab = "add"
  /\ Len(data.categories.v) < MaxCategories
  /\ Persist([data EXCEPT !.categories = Arr(data.categories.v \o << category >>)],
             rejecting)
  /\ notifications' = Notify(notifications, notificationSettings, "Category Added", "info")
  /\ UNCHANGED << activeTab, editingTransaction, notificationSettings,
                  settingsItem, tracking >>

\* ImportVerdict checking the transactions property only
ImportVerdictTransactionsOnly(content) ==
  IF ParseThrows(content) THEN ALERT_IMPORT_ERROR
  ELSE IF IsNull(JSONparse(content)) THEN ALERT_IMPORT_ERROR
  ELSE IF Truthy(GetTransactions(JSONparse(content))) THEN "accept"
  ELSE ALERT_INVALID_FILE

\* ExportImport.tsx 25-37: what reader.onload does with the file's text:
\* "accept" (onImport is called), or the alert it raises
ImportVerdict(content) ==
  IF ParseThrows(content) THEN ALERT_IMPORT_ERROR
  ELSE IF IsNull(JSONparse(content)) THEN ALERT_IMPORT_ERROR
  ELSE IF Truthy(GetTransactions(JSONparse(content)))
          /\ Truthy(GetCategories(JSONparse(content)))
       THEN "accept"
  ELSE ALERT_INVALID_FILE

\* ImportedLedger merging the payload into the current ledger
ImportedLedgerMerged(current, importedData) ==
  IF ValidForSave(current) /\ ValidForSave(importedData)
  THEN Obj(Arr(current.transactions.v \o importedData.transactions.v),
           Arr(current.categories.v \o importedData.categories.v), importedData.extra)
  ELSE importedData

\* App.tsx 208-209: the ledger handleImport(importedData) hands to handleSaveData
ImportedLedger(current, importedData) == importedData

\* ExportImport.tsx 19-45 with App.tsx 208-224: a file whose payload is accepted
ImportAccepted(content, rejecting) ==
  /\ Rendered /\ activeTab = "settings"
  /\ TotalActivity(Usage) < MaxActivity
  /\ ImportVerdict(content) = "accept"
  /\ Persist(ImportedLedger(data, JSONparse(content)), rejecting)
  /\ tracking' = trackActivity(tracking, "import", now)
  /\ notifications' = Notify(notifications, notificationSettings, "Data Imported", "success")
  /\ UNCHANGED << activeTab, editingTransaction, notificationSettings, settingsItem >>

\* ExportImport.tsx 19-45: a file whose payload is rejected
ImportRejected(content) ==
  /\ Rendered /\ activeTab = "settings"
  /\ ImportVerdict(content) # "accept"
  /\ alert' = ImportVerdict(content)
  /\ calls' = <<>>
  /\ UNCHANGED << data, storage, activeTab, editingTransaction,
                  notificationSettings, settingsItem, notifications, tracking, faults >>
  /\ UNCHANGED timers

\* Something other than the app clears an item or overwrites it with text
\* that does not parse (the user clears site data, the tab is closed, ...)
Tamper(loc, content) ==
  /\ faults < MaxFaults
  /\ storage[loc] # content
  /\ storage' = [storage EXCEPT ![loc] = content]
  /\ faults' = faults + 1
  /\ UNCHANGED << data, activeTab, editingTransaction, notificationSettings,
                  settingsItem, notifications, tracking, calls, alert >>
  /\ UNCHANGED timers

\* The files offered to the import: arrays of at most one transaction,
\* category lists, and the values that are not arrays
ImportArrays == { Arr(<<>>), Arr(<< Transaction(MaxId, 1) >>) }
ImportCategoryArrays == { Arr(<< Category("Decor") >>) }
ImportFiles ==
  { GARBAGE, JSONstringify(NullDoc), JSONstringify(ScalarDoc) }
  \cup { JSONstringify(Obj(tx, cats, {})) :
           tx \in ImportArrays \cup {MISSING, NULLV, SCALAR},
           cats \in ImportCategoryArrays \cup {MISSING, NULLV, SCALAR} }

Next ==
  \/ Reload
  \/ \E tab \in Tabs : SetActiveTab(tab)
  \/ \E t \in Transactions, rejecting \in SUBSET Locations : AddTransaction(t, rejecting)
  \/ \E t \in Transactions, rejecting \in SUBSET Locations : SaveEdit(t, rejecting)
  \/ \E t \in Transactions : handleEditTransaction(t)
  \/ handleCancelEdit
  \/ \E id \in 1..MaxId, rejecting \in SUBSET Locations : handleDeleteTransaction(id, rejecting)
  \/ \E rejecting \in SUBSET Locations : handleAddCategory(Category("Decor"), rejecting)
  \/ \E f \in ImportFiles, rejecting \in SUBSET Locations : ImportAccepted(f, rejecting)
  \/ \E f \in ImportFiles : ImportRejected(f)

Spec == Init /\ [][Next]_vars

\* The same handlers with every write accepted, and items damaged from outside
NextLoss ==
  \/ Reload
  \/ \E tab \in Tabs : SetActiveTab(tab)
  \/ \E t \in Transactions : AddTransaction(t, {})
  \/ \E t \in Transactions : SaveEdit(t, {})
  \/ \E t \in Transactions : handleEditTransaction(t)
  \/ handleCancelEdit
  \/ \E id \in 1..MaxId : handleDeleteTransaction(id, {})
  \/ handleAddCategory(Category("Decor"), {})
  \/ \E f \in ImportFiles : ImportAccepted(f, {})
  \/ \E f \in ImportFiles : ImportRejected(f)
  \/ \E loc \in Locations, c \in {ABSENT, EMPTYSTR, GARBAGE} : Tamper(loc, c)

SpecLoss == Init /\ [][NextLoss]_vars

\* The ledger handlers with every write accepted, and backup files as they
\* come: also one that lists two transactions under one id
RepeatedIdArrays == { Arr(<< Transaction(1, 1), Transaction(1, MaxAmount) >>) }
LedgerImportFiles ==
  { GARBAGE }
  \cup { JSONstringify(Obj(tx, cats, {})) :
           tx \in ImportArrays \cup RepeatedIdArrays, cats \in ImportCategoryArrays }

NextLedger ==
  \/ Reload
  \/ \E tab \in Tabs : SetActiveTab(tab)
  \/ \E t \in Transactions : AddTransaction(t, {})
  \/ \E t \in Transactions : SaveEdit(t, {})
  \/ \E t \in Transactions : handleEditTransaction(t)
  \/ handleCancelEdit
  \/ \E id \in 1..MaxId : handleDeleteTransaction(id, {})
  \/ handleAddCategory(Category("Decor"), {})
  \/ \E f \in LedgerImportFiles : ImportAccepted(f, {})
  \/ \E f \in LedgerImportFiles : ImportRejected(f)

\* The ledgers an earlier session may have left: none, or two transactions
StoredProfiles ==
  { Obj(Arr(<< Transaction(1, 1), Transaction(MaxId, 1) >>), Arr(DEFAULT_CATEGORIES), {}) }

\* App.tsx 27-53: the component after its mount effect, on a fresh profile
\* or on one whose items an earlier session saved
InitLedger ==
  /\ storage \in { [l \in Locations |-> ABSENT] }
                  \cup { handleSaveData([l \in Locations |-> ABSENT], d, {}).st :
                           d \in StoredProfiles }
  /\ data = loadData(storage["primary"], storage["backup"], storage["session"]).v
  /\ activeTab = "dashboard"
  /\ editingTransaction = NoTransaction
  /\ settingsItem = ABSENT
  /\ notificationSettings = getNotificationSettings(settingsItem)
  /\ notifications = <<>>
  /\ now = 0
  /\ tracking = initializeSession(ABSENT, now)
  /\ calls = <<>>
  /\ alert = ALERT_NONE
  /\ faults = 0
  /\ autoDownload = ABSENT
  /\ lastExport = "none"
  /\ startupTimer = shouldAutoDownload(autoDownload, now)
  /\ exported = NoExport
  /\ reminderTimers = MountReminders(notificationSettings, ABSENT).live
  /\ remindersItem = MountReminders(notificationSettings, ABSENT).item
  /\ nextTimerId = MountReminders(notificationSettings, ABSENT).nextId

SpecLedger == InitLedger /\ [][NextLedger]_vars

\* ------------------------------------------------- loadData on any storage
\* The contents an item may hold when the app starts: written by an earlier
\* version, damaged, or edited by hand
StoredTransactions ==
  { MISSING, SCALAR, Arr(<<>>) } \cup { Arr(<< Transaction(i, 1) >>) : i \in 1..MaxId }
StoredCategories ==
  { MISSING, NULLV, SCALAR, Arr(<<>>), Arr(<< Category("Decor") >>) }
StoredContents(extra) ==
  { ABSENT, EMPTYSTR, GARBAGE, JSONstringify(NullDoc), JSONstringify(ScalarDoc) }
  \cup { JSONstringify(Obj(tx, cats, extra)) :
           tx \in StoredTransactions, cats \in StoredCategories }

\* App.tsx 27-37: the component as constructed, before its mount effect
InitLoad ==
  /\ storage \in { [primary |-> p, backup |-> b, session |-> s, meta |-> ABSENT] :
                     p \in StoredContents({}),
                     b \in StoredContents({"lastBackup", "version", "dataIntegrity"}),
                     s \in StoredContents({}) }
  /\ data = Obj(Arr(<<>>), Arr(<<>>), {})
  /\ activeTab = "dashboard"
  /\ editingTransaction = NoTransaction
  /\ settingsItem = ABSENT
  /\ notificationSettings = DefaultSettings
  /\ notifications = <<>>
  /\ now = 0
  /\ tracking = ABSENT
  /\ calls = <<>>
  /\ alert = ALERT_NONE
  /\ faults = 0
  /\ autoDownload = ABSENT
  /\ lastExport = "none"
  /\ startupTimer = FALSE
  /\ exported = NoExport
  /\ reminderTimers = {}
  /\ remindersItem = ABSENT
  /\ nextTimerId = FirstTimerId

\* The mount effect loads whatever the items hold
NextLoad == Reload

SpecLoad == InitLoad /\ [][NextLoad]_vars

\* ------------------------------------------------- the notification log
\* The entries of the log that are read
ReadCount(log) == Cardinality({ i \in 1..Len(log) : log[i].read })

\* The ids of the log
LogIds(log) == { log[i].id : i \in 1..Len(log) }

\* An id no entry has: one of an entry since dropped or cleared
UnknownId == 0

\* App.tsx 61-68: the timer of the mount effect adds the welcome notification
WelcomeNotification ==
  /\ FreshId(notifications) <= MaxNotificationId
  /\ notifications' = addNotification(notifications, "Welcome to Decoricks Finance App", "info")
  /\ UNCHANGED << data, storage, activeTab, editingTransaction, notificationSettings,
                  settingsItem, tracking, calls, alert, faults >>
  /\ UNCHANGED timers

\* App.tsx 439-442: onMarkAsRead(id) of the notification panel
MarkNotificationAsRead(id) ==
  /\ ReadCount(markNotificationAsRead(notifications, id)) <= MaxRead
  /\ notifications' = markNotificationAsRead(notifications, id)
  /\ UNCHANGED << data, storage, activeTab, editingTransaction, notificationSettings,
                  settingsItem, tracking, calls, alert, faults >>
  /\ UNCHANGED timers

\* App.tsx 443-446: onClearAll() of the notification panel
ClearAllNotifications ==
  /\ notifications' = clearAllNotifications
  /\ UNCHANGED << data, storage, activeTab, editingTransaction, notificationSettings,
                  settingsItem, tracking, calls, alert, faults >>
  /\ UNCHANGED timers

\* The app on a fresh profile, no settings saved
InitLog == Init /\ settingsItem = ABSENT

NextLog ==
  \/ WelcomeNotification
  \/ \E id \in LogIds(notifications) \cup {UnknownId} : MarkNotificationAsRead(id)
  \/ ClearAllNotifications

SpecLog == InitLog /\ [][NextLog]_vars

\* ------------------------------------------------------ the auto-download
MaxWeeks == 1   \* the clock runs for this many weeks and one more

\* The instants at which something happens: in each week its start, half an
\* hour and a day into it, and its last millisecond
Offsets == { 0, thirtyMinutes, DAY_IN_MS, WEEK_IN_MS - 1 }
Instants == { w * WEEK_IN_MS + o : w \in 0..MaxWeeks, o \in Offsets }

\* Time passes: new Date() gives a later instant
Tick(t) ==
  /\ t > now
  /\ now' = t
  /\ UNCHANGED << data, storage, activeTab, editingTransaction, notificationSettings,
                  settingsItem, notifications, tracking, calls, alert, faults,
                  autoDownload, lastExport, startupTimer,
                  exported, reminderTimers, remindersItem, nextTimerId >>

\* The common part of the callers of triggerAutoDownload(data), each with
\* the ledger it holds
Trigger(ledger, browserThrows) ==
  LET r == triggerAutoDownload(autoDownload, ledger, browserThrows, now) IN
    /\ autoDownload' = r.item
    /\ lastExport' = r.outcome
    /\ exported' = IF r.outcome = "done" THEN ledger ELSE exported
    /\ UNCHANGED << data, storage, activeTab, editingTransaction, notificationSettings,
                    settingsItem, tracking, calls, alert, faults, now,
                    reminderTimers, remindersItem, nextTimerId >>

\* notifications.ts 346-350: the timer set when an export was due at start.
\* Its data is the ledger the mount effect loaded (App.tsx 40, 47), which is
\* the ledger in memory as long as no handler has changed it: the
\* specifications that run the timers of initializeAutoDownload run no
\* ledger handler
StartupDownload(browserThrows) ==
  /\ startupTimer
  /\ startupTimer' = FALSE
  /\ Trigger(data, browserThrows)
  /\ UNCHANGED notifications

\* notifications.ts 353-357: the hourly check, an export being due; the
\* five-second timer, when set, has fired before the first hour is over
PeriodicCheck(browserThrows) ==
  /\ ~startupTimer
  /\ shouldAutoDownload(autoDownload, now)
  /\ Trigger(data, browserThrows)
  /\ UNCHANGED << startupTimer, notifications >>

\* The settings a profile may hold when the app starts: none, text that does
\* not parse, or settings of an earlier session with no download recorded
StoredAutoDownload ==
  { ABSENT, GARBAGE }
  \cup { JSONstringify([enabled |-> e, lastDownload |-> NoTimestamp,
                        downloadInterval |-> i, format |-> f]) :
           e \in BOOLEAN, i \in {DAY_IN_MS, WEEK_IN_MS}, f \in {"json", "csv"} }

\* The ledgers a profile may hold: none, or one whose transactions are not an array
StoredLedgers == { ABSENT, JSONstringify(Obj(SCALAR, MISSING, {})) }

\* App.tsx 27-53: the component after its mount effect, on such a profile
InitExport ==
  /\ storage \in { [l \in Locations |-> IF l = "primary" THEN p ELSE ABSENT] :
                     p \in StoredLedgers }
  /\ data = loadData(storage["primary"], storage["backup"], storage["session"]).v
  /\ activeTab = "dashboard"
  /\ editingTransaction = NoTransaction
  /\ settingsItem = ABSENT
  /\ notificationSettings = getNotificationSettings(settingsItem)
  /\ notifications = <<>>
  /\ now = 0
  /\ tracking = initializeSession(ABSENT, now)
  /\ calls = <<>>
  /\ alert = ALERT_NONE
  /\ faults = 0
  /\ autoDownload \in StoredAutoDownload
  /\ lastExport = "none"
  /\ startupTimer = shouldAutoDownload(autoDownload, now)
  /\ exported = NoExport
  /\ reminderTimers = MountReminders(notificationSettings, ABSENT).live
  /\ remindersItem = MountReminders(notificationSettings, ABSENT).item
  /\ nextTimerId = MountReminders(notificationSettings, ABSENT).nextId

NextExport ==
  \/ \E t \in Instants : Tick(t)
  \/ \E browserThrows \in BOOLEAN : StartupDownload(browserThrows)
  \/ \E browserThrows \in BOOLEAN : PeriodicCheck(browserThrows)

SpecExport == InitExport /\ [][NextExport]_vars

\* ------------------------------------------------------- the usage tracker
Activities == {"add", "edit", "delete", "export", "import"}

\* App.tsx 131, 172, 212, 228: a handler of the mounted app records its activity
TrackActivity(activity) ==
  /\ tracking # ABSENT
  /\ TotalActivity(Usage) < MaxActivity
  /\ tracking' = trackActivity(tracking, activity, now)
  /\ UNCHANGED << data, storage, activeTab, editingTransaction, notificationSettings,
                  settingsItem, notifications, calls, alert, faults >>
  /\ UNCHANGED timers

\* App.tsx 27-37: the component as constructed on a fresh profile, before
\* its mount effect
InitUsage ==
  /\ storage = [l \in Locations |-> ABSENT]
  /\ data = Obj(Arr(<<>>), Arr(<<>>), {})
  /\ activeTab = "dashboard"
  /\ editingTransaction = NoTransaction
  /\ settingsItem = ABSENT
  /\ notificationSettings = DefaultSettings
  /\ notifications = <<>>
  /\ now = 0
  /\ tracking = ABSENT
  /\ calls = <<>>
  /\ alert = ALERT_NONE
  /\ faults = 0
  /\ autoDownload = ABSENT
  /\ lastExport = "none"
  /\ startupTimer = FALSE
  /\ exported = NoExport
  /\ reminderTimers = {}
  /\ remindersItem = ABSENT
  /\ nextTimerId = FirstTimerId

\* The app is started, its handlers record activities, and time passes
NextUsage ==
  \/ Reload
  \/ \E activity \in Activities : TrackActivity(activity)
  \/ \E t \in Instants : Tick(t)

SpecUsage == InitUsage /\ [][NextUsage]_vars

\* ------------------------------------------- the app's periodic refresh
MaxLog == 5   \* the refresh and the reminders stop at this many notifications

\* App.tsx 71-84: the two-second refresh, an export being due; its closure
\* holds the ledger the component was constructed with
NotificationRefresh(browserThrows) ==
  /\ Len(notifications) < MaxLog
  /\ shouldAutoDownload(autoDownload, now)
  /\ Trigger(InitialData, browserThrows)
  /\ notifications' = addNotification(notifications, "Auto-Backup Completed", "success")
  /\ UNCHANGED startupTimer

\* The auto-download settings a profile may hold here: none, or daily
\* downloads as CSV with none recorded
BackupAutoDownload ==
  { ABSENT,
    JSONstringify([enabled |-> TRUE, lastDownload |-> NoTimestamp,
                   downloadInterval |-> DAY_IN_MS, format |-> "csv"]) }

\* App.tsx 27-53: the component after its mount effect, on a fresh profile
\* or on one an earlier session saved, with the auto-download settings of
\* an earlier session
InitBackup ==
  /\ storage \in { [l \in Locations |-> ABSENT] }
                  \cup { handleSaveData([l \in Locations |-> ABSENT], d, {}).st :
                           d \in StoredProfiles }
  /\ data = loadData(storage["primary"], storage["backup"], storage["session"]).v
  /\ activeTab = "dashboard"
  /\ editingTransaction = NoTransaction
  /\ settingsItem = ABSENT
  /\ notificationSettings = getNotificationSettings(settingsItem)
  /\ notifications = <<>>
  /\ now = 0
  /\ tracking = initializeSession(ABSENT, now)
  /\ calls = <<>>
  /\ alert = ALERT_NONE
  /\ faults = 0
  /\ autoDownload \in BackupAutoDownload
  /\ lastExport = "none"
  /\ startupTimer = shouldAutoDownload(autoDownload, now)
  /\ exported = NoExport
  /\ reminderTimers = MountReminders(notificationSettings, ABSENT).live
  /\ remindersItem = MountReminders(notificationSettings, ABSENT).item
  /\ nextTimerId = MountReminders(notificationSettings, ABSENT).nextId

\* The three callers of triggerAutoDownload and the clock
NextBackup ==
  \/ \E t \in Instants : Tick(t)
  \/ \E browserThrows \in BOOLEAN : StartupDownload(browserThrows)
  \/ \E browserThrows \in BOOLEAN : PeriodicCheck(browserThrows)
  \/ \E browserThrows \in BOOLEAN : NotificationRefresh(browserThrows)

SpecBackup == InitBackup /\ [][NextBackup]_vars

\* -------------------------------------------------- the reminder timers
MaxTimerId == 10   \* the window hands out timer ids up to this one

\* The settings the settings panel may submit
ReminderSettings ==
  { [weeklyReminders |-> w, monthlyReminders |-> m, transactionNotifications |-> TRUE] :
      w, m \in BOOLEAN }

\* notifications.ts 36-42: saveNotificationSettings(settings), the write stored
saveNotificationSettings(settings) == JSONstringify(settings)

\* App.tsx 242-259: handleNotificationSettingsChange(newSettings)
handleNotificationSettingsChange(newSettings) ==
  /\ Len(notifications) < MaxLog
  /\ nextTimerId + 1 <= MaxTimerId
  /\ notificationSettings' = newSettings
  /\ settingsItem' = saveNotificationSettings(newSettings)
  /\ LET r == scheduleReminders(getNotificationSettings(settingsItem'), remindersItem,
                                reminderTimers, nextTimerId) IN
       /\ reminderTimers' = r.live
       /\ remindersItem' = r.item
       /\ nextTimerId' = r.nextId
  /\ notifications' = addNotification(notifications, "Settings Updated", "info")
  /\ UNCHANGED << data, storage, activeTab, editingTransaction, tracking, calls, alert,
                  faults, now, autoDownload, lastExport, startupTimer, exported >>

ReminderTitle(kind) ==
  IF kind = "weekly" THEN "Weekly Finance Review" ELSE "Monthly Finance Summary"

\* notifications.ts 143-170 and 180-214: the timeout of a reminder fires; it
\* notifies, sets the recurring interval and adds its id to the stored ids
ReminderTimeout(tm) ==
  /\ tm \in reminderTimers /\ ~tm.recurring
  /\ Len(notifications) < MaxLog
  /\ nextTimerId <= MaxTimerId
  /\ notifications' = addNotification(notifications, ReminderTitle(tm.kind), "reminder")
  /\ reminderTimers' = (reminderTimers \ {tm}) \cup { Timer(nextTimerId, tm.kind, TRUE) }
  /\ remindersItem' = IF NonEmpty(remindersItem) /\ ParseThrows(remindersItem)
                      THEN remindersItem
                      ELSE JSONstringify(Append(StoredReminders(remindersItem), nextTimerId))
  /\ nextTimerId' = nextTimerId + 1
  /\ UNCHANGED << data, storage, activeTab, editingTransaction, notificationSettings,
                  settingsItem, tracking, calls, alert, faults, now, autoDownload,
                  lastExport, startupTimer, exported >>

\* notifications.ts 152-158 and 188-201: the interval of a reminder fires;
\* the monthly one notifies within a day of the first of the month
ReminderInterval(tm, nearFirst) ==
  /\ tm \in reminderTimers /\ tm.recurring
  /\ tm.kind = "weekly" \/ nearFirst
  /\ Len(notifications) < MaxLog
  /\ notifications' = addNotification(notifications, ReminderTitle(tm.kind), "reminder")
  /\ UNCHANGED << data, storage, activeTab, editingTransaction, notificationSettings,
                  settingsItem, tracking, calls, alert, faults >>
  /\ UNCHANGED timers

\* The timers a window with ids up to MaxTimerId may hold
Timers ==
  { Timer(i, k, r) : i \in FirstTimerId..MaxTimerId, k \in {"weekly", "monthly"},
                     r \in BOOLEAN }

NextReminders ==
  \/ \E newSettings \in ReminderSettings : handleNotificationSettingsChange(newSettings)
  \/ \E tm \in Timers : ReminderTimeout(tm)
  \/ \E tm \in Timers : ReminderInterval(tm, TRUE)

SpecReminders == InitLog /\ [][NextReminders]_vars

\* ================================================================ claims
\* loadData() on the items as they are now
Loaded == loadData(storage["primary"], storage["backup"], storage["session"])

\* The ledger of an object: its two sequences, without its other keys
LedgerOf(d) == Obj(d.transactions, d.categories, {})

\* The most recent handler saved, and every setItem it called was stored
SavedOk == calls # <<>> /\ \A i \in 1..Len(calls) : calls[i].ok

\* C1: after the app saves a valid ledger with every write stored, a fresh
\* load returns that ledger: the same transactions in the same order with
\* their ids, and the same categories in the same order
C1_SaveLoadRoundTrip ==
  (ValidForSave(data) /\ SavedOk) => Loaded = Return(LedgerOf(data))

\* C1 witness: the empty ledger, one transaction added and saved, loaded back
C1_Witness ==
  /\ SavedOk
  /\ Usage.transactionsAdded = 1 /\ TotalActivity(Usage) = 1
  /\ Len(data.transactions.v) = 1
  /\ Loaded = Return(LedgerOf(data))

\* A populated backup record: an object whose transactions are an array and
\* whose categories are an array or absent
BackupPopulated ==
  /\ ~ParseThrows(storage["backup"])
  /\ JSONparse(storage["backup"]).d = "object"
  /\ IsArray(JSONparse(storage["backup"]).transactions)
  /\ \/ IsArray(JSONparse(storage["backup"]).categories)
     \/ JSONparse(storage["backup"]).categories = MISSING

\* The primary item is empty, or reading it fails
PrimaryEmptyOrCorrupt ==
  \/ ~NonEmpty(storage["primary"])
  \/ ParseThrows(storage["primary"])
  \/ IsNull(JSONparse(storage["primary"]))

\* C2: with the primary item empty or corrupt and a populated backup record,
\* loadData returns the backup's transactions and categories, the default
\* categories when the record has none
C2_FallbackToBackup ==
  (PrimaryEmptyOrCorrupt /\ BackupPopulated) =>
    Loaded = Return(Obj(JSONparse(storage["backup"]).transactions,
                        IF JSONparse(storage["backup"]).categories = MISSING
                        THEN Arr(DEFAULT_CATEGORIES)
                        ELSE JSONparse(storage["backup"]).categories,
                        {}))

\* C2 witness: a primary item that does not parse, a backup record with a
\* transaction and no categories, loaded into the app
C2_Witness ==
  /\ storage["primary"] = GARBAGE
  /\ BackupPopulated
  /\ JSONparse(storage["backup"]).categories = MISSING
  /\ Len(JSONparse(storage["backup"]).transactions.v) = 1
  /\ data = Obj(JSONparse(storage["backup"]).transactions, Arr(DEFAULT_CATEGORIES), {})

AllEmpty == \A l \in {"primary", "backup", "session"} : ~NonEmpty(storage[l])

\* C3: with the primary, backup and session items all empty, loadData
\* returns exactly the empty ledger with the default categories
C3_FullFailureDefault ==
  AllEmpty => Loaded = Return(Obj(Arr(<<>>), Arr(DEFAULT_CATEGORIES), {}))

\* C3 witness: nothing stored, and the app has loaded the default ledger
C3_Witness ==
  /\ AllEmpty
  /\ data = Obj(Arr(<<>>), Arr(DEFAULT_CATEGORIES), {})

\* The contents C4 lists: absent, unparseable, parseable but not an object,
\* or a well-formed ledger
WellFormed(text) ==
  /\ ~ParseThrows(text)
  /\ JSONparse(text).d = "object"
  /\ IsArray(JSONparse(text).transactions)
  /\ IsArray(JSONparse(text).categories)
NoData(text) ==
  \/ ~NonEmpty(text)
  \/ ParseThrows(text)
  \/ JSONparse(text).d # "object"
Listed(text) == WellFormed(text) \/ NoData(text)

\* C4: loadData never raises; on the listed contents it returns a ledger of
\* two sequences, and the empty default when no item holds data
C4_LoadNeverRaises ==
  /\ Loaded.c = "return"
  /\ (\A l \in {"primary", "backup", "session"} : Listed(storage[l]))
       => ValidForSave(Loaded.v)
  /\ (\A l \in {"primary", "backup", "session"} : NoData(storage[l]))
       => Loaded.v = EmptyLedger

\* C4 witness: a primary item that does not parse, a backup of JSON null,
\* a well-formed session item, and the app has loaded the empty default
C4_Witness ==
  /\ storage["primary"] = GARBAGE
  /\ storage["backup"] = JSONstringify(NullDoc)
  /\ WellFormed(storage["session"])
  /\ data = EmptyLedger

\* What a save of ledger d with every write stored leaves in each item
AfterFullSave(d) ==
  [primary |-> JSONstringify(d),
   backup |-> JSONstringify(Annotate(d, {"lastBackup"})),
   session |-> JSONstringify(d),
   meta |-> JSONstringify(criticalData(d))]

\* The items that no longer hold what the last save left
Lost == { l \in Locations : storage[l] # AfterFullSave(data)[l] }

\* C5: after a save of a valid ledger with every write stored, with at most
\* one item since cleared or overwritten with text that does not parse, a
\* load still returns that ledger
C5_SingleLossTolerated ==
  ( /\ ValidForSave(data) /\ SavedOk
    /\ Cardinality(Lost) <= 1
    /\ \A l \in Lost : storage[l] \in {ABSENT, EMPTYSTR, GARBAGE} )
  => Loaded = Return(LedgerOf(data))

\* C5 witness: a saved ledger with a transaction, the primary item then
\* overwritten with text that does not parse, still loads
C5_Witness ==
  /\ ValidForSave(data) /\ SavedOk
  /\ Len(data.transactions.v) >= 1
  /\ Lost = {"primary"}
  /\ storage["primary"] = GARBAGE
  /\ Loaded = Return(LedgerOf(data))

\* A step of the import handler on file f, accepted or rejected
ImportStep(f) ==
  /\ activeTab = "settings"
  /\ \/ ImportVerdict(f) = "accept"
        /\ \E rejecting \in SUBSET Locations : ImportAccepted(f, rejecting)
     \/ ImportRejected(f)

\* C6: when the app saves a ledger whose transactions or categories are not
\* a sequence, no item is modified
C6_InvalidSaveTouchesNothing ==
  [][ (\E f \in ImportFiles :
         /\ ImportStep(f)
         /\ ImportVerdict(f) = "accept"
         /\ ~ValidForSave(JSONparse(f)))
      => storage' = storage ]_vars

\* The locations saveData tried to write in the most recent handler
AttemptedBySaveData ==
  { calls[i].loc : i \in { j \in 1..Len(calls) : calls[j].by = "saveData" } }

\* C7: in a save of a valid ledger each of the four writes is attempted,
\* whichever of them fail
C7_IndependentWrites ==
  (calls # <<>> /\ ValidForSave(data)) => AttemptedBySaveData = Locations

\* The most recent handler saved, and the primary write of saveData failed
PrimaryWriteFailed ==
  calls # <<>> /\ calls[1] = Call("saveData", "primary", FALSE)

\* The calls saveData made in the most recent handler
SaveDataCalls == SelectSeq(calls, LAMBDA c : c.by = "saveData")

\* C8: when the primary write of a save fails, saveData then tries the
\* session item alone and raises an alert; the primary, backup and metadata
\* items are left as they were
C8_PrimaryFailureFallsBackToSession ==
  [][ PrimaryWriteFailed' =>
        /\ Len(SaveDataCalls') = 2
        /\ SaveDataCalls'[2].loc = "session"
        /\ \A l \in {"primary", "backup", "meta"} : storage'[l] = storage[l]
        /\ IF SaveDataCalls'[2].ok
           THEN /\ storage'["session"] = JSONstringify(data')
                /\ alert' = ALERT_SESSION
           ELSE /\ storage'["session"] = storage["session"]
                /\ alert' = ALERT_UNABLE ]_vars

\* C8 witness: a save whose primary write failed, the ledger kept in the
\* session item only, the alert raised
C8_Witness ==
  /\ PrimaryWriteFailed
  /\ alert = ALERT_SESSION
  /\ Len(data.transactions.v) = 1
  /\ storage["session"] = JSONstringify(data)
  /\ storage["primary"] = ABSENT /\ storage["backup"] = ABSENT /\ storage["meta"] = ABSENT

\* A payload that does not parse, or lacks a truthy transactions or
\* categories property
BadPayload(f) ==
  \/ ParseThrows(f)
  \/ ~Truthy(GetTransactions(JSONparse(f)))
  \/ ~Truthy(GetCategories(JSONparse(f)))

\* C9: an import of such a payload raises an alert and leaves the ledger in
\* memory, every ledger item, the usage counters and the notification log
\* as they were
C9_RejectedImportChangesNothing ==
  [][ activeTab = "settings" =>
        \A f \in ImportFiles :
          (BadPayload(f) /\ ImportStep(f)) =>
            /\ alert' \in {ALERT_INVALID_FILE, ALERT_IMPORT_ERROR}
            /\ data' = data
            /\ storage' = storage
            /\ tracking' = tracking
            /\ notifications' = notifications ]_vars

\* C9 witness: a ledger with a transaction, saved, and an import just
\* rejected for its shape
C9_Witness ==
  /\ alert = ALERT_INVALID_FILE
  /\ Len(data.transactions.v) = 1
  /\ storage["primary"] = JSONstringify(data)
  /\ Usage.importsPerformed = 0
  /\ Usage.transactionsAdded = 1

\* An accepted import of a payload whose two properties are arrays
ValidImportStep(f) ==
  /\ activeTab = "settings"
  /\ ImportVerdict(f) = "accept"
  /\ ValidForSave(JSONparse(f))
  /\ \E rejecting \in SUBSET Locations : ImportAccepted(f, rejecting)

C11_LogCapped == Len(notifications) <= NOTIFICATION_CAP

\* C11 witness: a full log after more than 50 additions, an entry of it read
C11_Witness ==
  /\ Len(notifications) = NOTIFICATION_CAP
  /\ notifications[1].id > NOTIFICATION_CAP
  /\ ReadCount(notifications) >= 1

\* The additions since the log was last empty: ids count them
Appended == IF notifications = <<>> THEN 0 ELSE notifications[1].id

\* C12: N additions to an empty log leave the min(N, 50) most recent of
\* them, newest first; each addition puts an unread entry in front of the
\* most recent 49 of the entries before it
C12_NewestFirst ==
  /\ [](/\ Len(notifications) = IF Appended > NOTIFICATION_CAP
                                 THEN NOTIFICATION_CAP ELSE Appended
        /\ \A i \in 1..Len(notifications) : notifications[i].id = Appended - i + 1)
  /\ [][ WelcomeNotification =>
           /\ notifications'[1].id \notin LogIds(notifications)
           /\ ~notifications'[1].read
           /\ Tail(notifications') =
                SubSeq(notifications, 1,
                       IF Len(notifications) >= NOTIFICATION_CAP
                       THEN NOTIFICATION_CAP - 1 ELSE Len(notifications)) ]_vars

\* C12 witness: 52 additions, the 50 most recent left, the first two dropped
C12_Witness ==
  /\ Appended = NOTIFICATION_CAP + 2
  /\ Len(notifications) = NOTIFICATION_CAP
  /\ notifications[NOTIFICATION_CAP].id = 3

\* C13: marking id read sets read on the entry with that id and changes no
\* other entry, nor the length or the order; with the id absent or its
\* entry already read the log is left as it was
C13_MarkReadFrame ==
  [][ \A id \in LogIds(notifications) \cup {UnknownId} :
        MarkNotificationAsRead(id) =>
          /\ Len(notifications') = Len(notifications)
          /\ \A i \in 1..Len(notifications) :
               IF notifications[i].id = id
               THEN notifications'[i] = [notifications[i] EXCEPT !.read = TRUE]
               ELSE notifications'[i] = notifications[i]
          /\ ( \/ id \notin LogIds(notifications)
               \/ \E i \in 1..Len(notifications) :
                    notifications[i].id = id /\ notifications[i].read )
             => notifications' = notifications ]_vars

\* C13 witness: the newest entry marked read, the one before it still unread
C13_Witness ==
  /\ Len(notifications) >= 2
  /\ notifications[1].read
  /\ ~notifications[2].read

\* The auto-download settings in force
AutoDownload == getAutoDownloadSettings(autoDownload)

\* C14: an export is due exactly when auto-download is enabled and either no
\* download is recorded or the time since the recorded one is at least the
\* interval; the stored settings hold no flag for it
C14_DueDerived ==
  /\ shouldAutoDownload(autoDownload, now)
       <=> ( /\ AutoDownload.enabled
             /\ \/ ~IsSet(AutoDownload.lastDownload)
                \/ now - getTime(AutoDownload.lastDownload) >= AutoDownload.downloadInterval )
  /\ ~ParseThrows(autoDownload) =>
       DOMAIN JSONparse(autoDownload) = {"enabled", "lastDownload", "downloadInterval", "format"}

\* C14 witness: a download recorded, exactly the interval ago, and one is due
C14_Witness ==
  /\ IsSet(AutoDownload.lastDownload)
  /\ now - getTime(AutoDownload.lastDownload) = AutoDownload.downloadInterval
  /\ shouldAutoDownload(autoDownload, now)

\* A step of triggerAutoDownload, from either caller
TriggerStep ==
  \E browserThrows \in BOOLEAN :
    StartupDownload(browserThrows) \/ PeriodicCheck(browserThrows)

\* The settings are the default ones, but for the recorded download
DefaultEnabled == AutoDownload.enabled /\ AutoDownload.downloadInterval = WEEK_IN_MS

\* C15: with the default settings an export is due while none is recorded,
\* not due right after a download that succeeded, not due while less than
\* a week has passed since it, and due again from a week after it
C15_DueCycle ==
  /\ []( (DefaultEnabled /\ ~IsSet(AutoDownload.lastDownload))
           => shouldAutoDownload(autoDownload, now) )
  /\ [][ (DefaultEnabled /\ TriggerStep /\ lastExport' = "done")
           => /\ ~shouldAutoDownload(autoDownload', now')
              /\ getTime(getAutoDownloadSettings(autoDownload').lastDownload) = now ]_vars
  /\ []( (DefaultEnabled /\ IsSet(AutoDownload.lastDownload))
           => ( shouldAutoDownload(autoDownload, now)
                  <=> now - getTime(AutoDownload.lastDownload) >= WEEK_IN_MS ) )

\* C15 witness: a download succeeded, a week or more has passed, one is due
C15_Witness ==
  /\ DefaultEnabled
  /\ lastExport = "done"
  /\ now - getTime(AutoDownload.lastDownload) >= WEEK_IN_MS
  /\ shouldAutoDownload(autoDownload, now)

\* C16: triggerAutoDownload records now as the last download when the file
\* was downloaded; when that failed it leaves the stored settings as they
\* were, and an export that was due is still due
C16_FailureKeepsDue ==
  [][ TriggerStep =>
        IF lastExport' = "done"
        THEN getAutoDownloadSettings(autoDownload').lastDownload = toISOString(now)
        ELSE /\ lastExport' = "failed"
             /\ autoDownload' = autoDownload
             /\ shouldAutoDownload(autoDownload, now)
                  => shouldAutoDownload(autoDownload', now') ]_vars

\* C16 witness: a download succeeded, a later one failed when due, the
\* recorded download is still the earlier one and an export is still due
C16_Witness ==
  /\ lastExport = "failed"
  /\ IsSet(AutoDownload.lastDownload)
  /\ getTime(AutoDownload.lastDownload) < now
  /\ shouldAutoDownload(autoDownload, now)

\* The counter of a usage record that an activity is counted in
Counter(d, activity) ==
  CASE activity = "add" -> d.transactionsAdded
    [] activity = "edit" -> d.transactionsEdited
    [] activity = "delete" -> d.transactionsDeleted
    [] activity = "export" -> d.exportsPerformed
    [] activity = "import" -> d.importsPerformed

\* The count of a day in the daily usage, 0 for a day without an entry
DayCount(d, day) == IF day \in DOMAIN d.dailyUsage THEN d.dailyUsage[day] ELSE 0

\* The usage record stored after the step
UsageAfter == JSONparse(tracking')

\* C17: recording an activity adds 1 to its counter and to today's entry of
\* the daily usage (made at 1 when there was none) and sets lastActivity; the
\* other four counters, totalSessions, sessionStart and the entries of the
\* other days are left as they were
C17_TrackActivityFrame ==
  [][ \A activity \in Activities :
        TrackActivity(activity) =>
          /\ Counter(UsageAfter, activity) = Counter(Usage, activity) + 1
          /\ \A other \in Activities \ {activity} :
               Counter(UsageAfter, other) = Counter(Usage, other)
          /\ DOMAIN UsageAfter.dailyUsage = DOMAIN Usage.dailyUsage \cup {Today(now)}
          /\ \A day \in DOMAIN UsageAfter.dailyUsage :
               DayCount(UsageAfter, day)
                 = DayCount(Usage, day) + (IF day = Today(now) THEN 1 ELSE 0)
          /\ UsageAfter.lastActivity = toISOString(now)
          /\ UsageAfter.totalSessions = Usage.totalSessions
          /\ UsageAfter.sessionStart = Usage.sessionStart ]_vars

\* C17 witness: an export recorded on one day and a deletion on a later day
C17_Witness ==
  /\ tracking # ABSENT
  /\ Usage.exportsPerformed = 1 /\ Usage.transactionsDeleted = 1
  /\ Cardinality(DOMAIN Usage.dailyUsage) = 2
  /\ \A day \in DOMAIN Usage.dailyUsage : Usage.dailyUsage[day] = 1
  /\ Usage.lastActivity = toISOString(now)

\* C18: initializeSession counts a new session and restarts sessionStart when
\* no usage is stored or more than thirty minutes have passed since the last
\* activity; otherwise it leaves totalSessions and sessionStart as they were
C18_SessionBoundary ==
  [][ Reload =>
        IF tracking = ABSENT
        THEN /\ UsageAfter.totalSessions = 1
             /\ UsageAfter.sessionStart = toISOString(now)
        ELSE IF now - getTime(JSONparse(tracking).lastActivity) > thirtyMinutes
        THEN /\ UsageAfter.totalSessions = JSONparse(tracking).totalSessions + 1
             /\ UsageAfter.sessionStart = toISOString(now)
        ELSE /\ UsageAfter.totalSessions = JSONparse(tracking).totalSessions
             /\ UsageAfter.sessionStart = JSONparse(tracking).sessionStart ]_vars

\* C18 witness: a second session was counted, and a later start within
\* thirty minutes of it went on with that session
C18_Witness ==
  /\ tracking # ABSENT
  /\ Usage.totalSessions = 2
  /\ TotalActivity(Usage) = 0
  /\ getTime(Usage.sessionStart) > thirtyMinutes
  /\ getTime(Usage.lastActivity) = getTime(Usage.sessionStart) + thirtyMinutes

\* C19: the total the app derives from the usage record is the sum of the
\* five counters
C19_TotalIsSumOfFive ==
  getUsageStats(tracking, now).totalTransactions = TotalActivity(Usage)

\* C20: no two transactions of the ledger have the same id, after any
\* additions (their ids fresh), edits, deletions and accepted imports
C20_UniqueIds ==
  IsArray(data.transactions) =>
    \A i, j \in 1..Len(data.transactions.v) :
      i # j => data.transactions.v[i].id # data.transactions.v[j].id

\* C21: the ledger a load returns and the ledger in memory always have
\* transactions and categories that are sequences, whatever the items hold
C21_LedgerTotal ==
  /\ Loaded.c = "return" => ValidForSave(Loaded.v)
  /\ ValidForSave(data)

\* C23: after a save of a valid ledger with every write stored, the backup
\* item holds that ledger with a lastBackup and a version key
C23_BackupAnnotated ==
  (ValidForSave(data) /\ SavedOk) =>
    /\ ~ParseThrows(storage["backup"])
    /\ LedgerOf(JSONparse(storage["backup"])) = LedgerOf(data)
    /\ {"lastBackup", "version"} \subseteq JSONparse(storage["backup"]).extra

\* The ledgers the three items hold, as loadData reshapes them
StoredLedgerSet ==
  { Reshape(JSONparse(storage[l])) :
      l \in { k \in {"primary", "backup", "session"} : WellFormed(storage[k]) } }

\* C25: when the primary, the backup or the session item holds a ledger that
\* parses, loadData returns a stored ledger, whatever the other items hold
C25_LoadRecovers ==
  StoredLedgerSet # {} =>
    /\ Loaded.c = "return"
    /\ Loaded.v \in StoredLedgerSet

\* C24: an addition puts the transaction at the end; an edit replaces the
\* transactions of its id where they are and keeps the others and the
\* length; a deletion removes the transactions of its id and keeps the
\* others in their order; the three keep the categories; a new category is
\* put at the end of the categories and the transactions are kept
C24_MutationFrame ==
  [][ /\ \A t \in Transactions :
           AddTransaction(t, {}) =>
             /\ data'.transactions.v = Append(data.transactions.v, t)
             /\ data'.categories = data.categories
      /\ \A t \in Transactions :
           SaveEdit(t, {}) =>
             /\ Len(data'.transactions.v) = Len(data.transactions.v)
             /\ \A i \in 1..Len(data.transactions.v) :
                  data'.transactions.v[i] =
                    IF data.transactions.v[i].id = t.id THEN t ELSE data.transactions.v[i]
             /\ data'.categories = data.categories
      /\ \A id \in 1..MaxId :
           handleDeleteTransaction(id, {}) =>
             /\ data'.transactions.v = SelectSeq(data.transactions.v, LAMBDA t : t.id # id)
             /\ data'.categories = data.categories
      /\ handleAddCategory(Category("Decor"), {}) =>
           /\ data'.categories.v = Append(data.categories.v, Category("Decor"))
           /\ data'.transactions = data.transactions ]_vars

\* C24 witness: of two transactions the first was edited, in place
C24_Witness ==
  /\ Usage.transactionsEdited = 1 /\ TotalActivity(Usage) = 1
  /\ data.transactions.v = << Transaction(1, MaxAmount), Transaction(MaxId, 1) >>

\* C29: once the app has saved, the primary, the session and the backup item
\* hold the ledger in memory, and the metadata item its two lengths
C29_ReplicasAgree ==
  storage["primary"] # ABSENT =>
    /\ \A l \in {"primary", "backup", "session"} :
         /\ ~ParseThrows(storage[l])
         /\ LedgerOf(JSONparse(storage[l])) = LedgerOf(data)
    /\ ~ParseThrows(storage["meta"])
    /\ JSONparse(storage["meta"]).transactionCount = Len(data.transactions.v)
    /\ JSONparse(storage["meta"]).categoryCount = Len(data.categories.v)

\* C29 witness: a transaction added and a file imported, every item in step
C29_Witness ==
  /\ Usage.transactionsAdded = 1 /\ Usage.importsPerformed = 1
  /\ storage["session"] = JSONstringify(data)
  /\ JSONparse(storage["meta"]).transactionCount = Len(data.transactions.v)
  /\ Len(data.categories.v) # Len(data.transactions.v)

\* C30: when a save in edit mode completes, the ledger holds the submitted
\* transaction
C30_EditKept ==
  [][ \A t \in Transactions :
        SaveEdit(t, {}) =>
          \E i \in 1..Len(data'.transactions.v) : data'.transactions.v[i] = t ]_vars

\* The live reminder timers of a kind
Live(kind) == { tm \in reminderTimers : tm.kind = kind }

\* C22: at most one weekly and at most one monthly reminder timer is live,
\* none is live for a kind the settings disable, and a change of the
\* settings cancels every timer that was live before it schedules
C22_NoDuplicateReminders ==
  /\ [](/\ Cardinality(Live("weekly")) <= 1
        /\ Cardinality(Live("monthly")) <= 1
        /\ ~notificationSettings.weeklyReminders => Live("weekly") = {}
        /\ ~notificationSettings.monthlyReminders => Live("monthly") = {})
  /\ [][ (\E newSettings \in ReminderSettings :
            handleNotificationSettingsChange(newSettings))
         => reminderTimers \cap reminderTimers' = {} ]_vars

\* C22 witness: settings were changed after timers had fired, and the
\* weekly interval set since is the only reminder timer
C22_Witness ==
  /\ ~notificationSettings.monthlyReminders
  /\ \E tm \in reminderTimers : tm.recurring /\ tm.kind = "weekly" /\ tm.id > 4
  /\ Cardinality(reminderTimers) = 1

\* A step of one of the three callers of triggerAutoDownload
ExportStep ==
  \E browserThrows \in BOOLEAN :
    \/ StartupDownload(browserThrows)
    \/ PeriodicCheck(browserThrows)
    \/ NotificationRefresh(browserThrows)

\* C26: an automatic export is made only at an instant at which an export
\* is due
C26_ExportOnlyWhenDue ==
  [][ (ExportStep /\ lastExport' = "done") => shouldAutoDownload(autoDownload, now) ]_vars

\* C27: an automatic export serializes the ledger in memory
C27_ExportsCurrent ==
  [][ (ExportStep /\ lastExport' = "done") => exported' = data ]_vars

\* C28: the refresh adds 'Auto-Backup Completed' only when its export was
\* made
C28_TruthfulNotification ==
  [][ (\E browserThrows \in BOOLEAN : NotificationRefresh(browserThrows))
      => lastExport' = "done" ]_vars

====
